---- MODULE Spec2Model ----
(***************************************************************************)
(* Weighted Cohesion Score / Distributional Ratio (src/wscdr.py) and the   *)
(* fixed-schema option model used by src/example_wcsdr.py.                 *)
(*                                                                         *)
(* Numbers are exact: a float is a pair <<n, d>> in lowest terms with      *)
(* d > 0; the three IEEE specials are <<1,0>> (inf), <<-1,0>> (-inf) and   *)
(* <<0,0>> (nan).  Comparisons and the builtins min/max follow Python's    *)
(* semantics on those values.                                              *)
(***************************************************************************)
EXTENDS Integers, Sequences, FiniteSets, TLC

VARIABLES pc, subject, target, target_a, target_b, weights, similarity,
          scales, eps, ret, wcs_a, wcs_b, seen_a, seen_b, args, opt, options, ranked

vars == <<pc, subject, target, target_a, target_b, weights, similarity,
          scales, eps, ret, wcs_a, wcs_b, seen_a, seen_b, args, opt, options, ranked>>

----------------------------------------------------------------------------
(* Bounds *)

MaxLen == 2

----------------------------------------------------------------------------
(* Floats *)

AbsInt(n) == IF n < 0 THEN -n ELSE n

RECURSIVE GCD(_, _)
GCD(a, b) == IF b = 0 THEN a ELSE GCD(b, a % b)

NaN    == <<0, 0>>
PosInf == <<1, 0>>
NegInf == <<-1, 0>>

Rat(n, d) ==
    LET g == GCD(AbsInt(n), AbsInt(d))
        s == IF d < 0 THEN -1 ELSE 1
    IN  <<(s * n) \div g, (s * d) \div g>>

Num(n) == <<n, 1>>

IsNaN(x)    == x = NaN
IsZero(x)   == x[2] # 0 /\ x[1] = 0

\* x < y on floats: false whenever either side is nan
Lt(x, y) ==
    IF IsNaN(x) \/ IsNaN(y) THEN FALSE
    ELSE IF x[2] = 0 /\ y[2] = 0 THEN x[1] < y[1]
    ELSE x[1] * y[2] < y[1] * x[2]

\* x <= y on floats: false whenever either side is nan
Le(x, y) ==
    IF IsNaN(x) \/ IsNaN(y) THEN FALSE
    ELSE IF x[2] = 0 /\ y[2] = 0 THEN x[1] <= y[1]
    ELSE x[1] * y[2] <= y[1] * x[2]

Neg(x) == <<-x[1], x[2]>>

Abs(x) == <<AbsInt(x[1]), x[2]>>

Add(x, y) ==
    IF IsNaN(x) \/ IsNaN(y) THEN NaN
    ELSE IF x[2] = 0 /\ y[2] = 0 THEN (IF x = y THEN x ELSE NaN)
    ELSE IF x[2] = 0 THEN x
    ELSE IF y[2] = 0 THEN y
    ELSE Rat(x[1] * y[2] + y[1] * x[2], x[2] * y[2])

Sub(x, y) == Add(x, Neg(y))

Sign(n) == IF n < 0 THEN -1 ELSE IF n > 0 THEN 1 ELSE 0

Mul(x, y) ==
    IF IsNaN(x) \/ IsNaN(y) THEN NaN
    ELSE IF x[2] = 0 \/ y[2] = 0 THEN <<Sign(x[1]) * Sign(y[1]), 0>>
    ELSE Rat(x[1] * y[1], x[2] * y[2])

\* x / y for y # 0.0 (Python raises ZeroDivisionError when y is zero)
Div(x, y) ==
    IF IsNaN(x) \/ IsNaN(y) THEN NaN
    ELSE IF x[2] = 0 /\ y[2] = 0 THEN NaN
    ELSE IF x[2] = 0 THEN <<x[1] * Sign(y[1]), 0>>
    ELSE IF y[2] = 0 THEN Num(0)
    ELSE Rat(x[1] * y[2], x[2] * y[1])

\* the builtins min(a, b) and max(a, b): the first argument is kept unless
\* the second compares strictly smaller (larger)
PyMin(a, b) == IF Lt(b, a) THEN b ELSE a
PyMax(a, b) == IF Lt(a, b) THEN b ELSE a

----------------------------------------------------------------------------
(* Outcome of a call: a returned float or a raised exception *)

Ok(v)     == [kind |-> "ok", val |-> v, err |-> ""]
Raise(e)  == [kind |-> "error", val |-> NaN, err |-> e]
Pending   == [kind |-> "pending", val |-> NaN, err |-> ""]

ErrLength     == "subject and target must have the same length."
ErrWeights    == "weights must match subject length."
ErrSimilarity == "similarity iterable must match subject length."
ErrMissing    == "Either 'similarity' must be provided, or 'scales' for scalar attributes."
ErrScales     == "scales must match subject length."
ErrScale      == "scale must be positive."
ErrZeroDiv    == "float division by zero"

----------------------------------------------------------------------------
(* Similarity functions.  A function value is a record: "binary" is        *)
(* similarity_binary, "scalar" is the closure over similarity_scalar with  *)
(* scale arg, "const" is a caller-supplied function returning arg.         *)

\* faulty variant: the comparison inverted
similarity_binary_inverted(a, b) == IF a = b /\ ~IsNaN(a) THEN Num(0) ELSE Num(1)

similarity_binary(a, b) == IF a = b /\ ~IsNaN(a) THEN Num(1) ELSE Num(0)

similarity_scalar(a, b, scale) ==
    IF Le(scale, Num(0)) THEN Raise(ErrScale)
    ELSE LET d == Div(Abs(Sub(a, b)), scale)
         IN  Ok(PyMax(Num(0), PyMin(Num(1), Sub(Num(1), d))))

Binary        == [kind |-> "binary", arg |-> Num(0)]
make_scalar_sim(scale) == [kind |-> "scalar", arg |-> scale]
Const(v)      == [kind |-> "const", arg |-> v]

Apply(f, a, b) ==
    CASE f.kind = "binary" -> Ok(similarity_binary(a, b))
      [] f.kind = "scalar" -> similarity_scalar(a, b, f.arg)
      [] OTHER             -> Ok(f.arg)

----------------------------------------------------------------------------
(* Arguments.  An optional sequence argument is [given, items]; given is   *)
(* FALSE for None.  The similarity argument is an Iterable: kind "list" is *)
(* re-iterable, kind "iter" is a one-shot iterator whose items are what is *)
(* still left in it, kind "none" is None.                                  *)

None == [given |-> FALSE, items |-> <<>>]
Some(q) == [given |-> TRUE, items |-> q]

NoSimilarity == [kind |-> "none", items |-> <<>>]
SimList(q)   == [kind |-> "list", items |-> q]
SimIter(q)   == [kind |-> "iter", items |-> q]

\* the iterable after list(similarity) has run over it
Consumed(sim) == IF sim.kind = "iter" THEN SimIter(<<>>) ELSE sim

----------------------------------------------------------------------------
(* weighted_cohesion_score *)

\* lines 135-143: the accumulation loop from index i on; the result is the
\* raised error or the pair of sums
\* faulty variant: only negative weights are skipped
SkippedNegative(wi) == Lt(wi, Num(0))

\* line 137: the attribute is left out of both sums
Skipped(wi) == Le(wi, Num(0))

\* faulty variant: the similarity value is used as returned
ClipNone(sim_val) == sim_val

\* line 141: clip in case a custom similarity leaks outside [0, 1]
Clip(sim_val) == PyMax(Num(0), PyMin(Num(1), sim_val))

\* lines 109, 115, 124: a sequence whose length is not n
Mismatch(q, n) == Len(q) # n

RECURSIVE Accumulate(_, _, _, _, _, _, _)
Accumulate(i, s, t, w, sims, weighted_sum, weight_total) ==
    IF i > Len(s) THEN [kind |-> "ok", weighted_sum |-> weighted_sum,
                        weight_total |-> weight_total, err |-> ""]
    ELSE IF Skipped(w[i])
         THEN Accumulate(i + 1, s, t, w, sims, weighted_sum, weight_total)
    ELSE LET r == Apply(sims[i], s[i], t[i])
         IN  IF r.kind = "error"
             THEN [kind |-> "error", weighted_sum |-> weighted_sum,
                   weight_total |-> weight_total, err |-> r.err]
             ELSE LET sim_val == Clip(r.val)
                  IN  Accumulate(i + 1, s, t, w, sims,
                                 Add(weighted_sum, Mul(w[i], sim_val)),
                                 Add(weight_total, w[i]))

\* lines 132-148
Aggregate(s, t, w, sims) ==
    LET acc == Accumulate(1, s, t, w, sims, Num(0), Num(0))
    IN  IF acc.kind = "error" THEN Raise(acc.err)
        ELSE IF Le(acc.weight_total, Num(0)) THEN Ok(Num(0))
        ELSE Ok(Div(acc.weighted_sum, acc.weight_total))

\* faulty variant: without similarity and scales every attribute is compared by
\* similarity_binary instead of the call failing
SelectSimsDefaultBinary(sim, scl, n) ==
    IF sim.kind # "none"
    THEN IF Mismatch(sim.items, n)
         THEN [kind |-> "error", err |-> ErrSimilarity, sims |-> <<>>]
         ELSE [kind |-> "ok", err |-> "", sims |-> sim.items]
    ELSE IF ~scl.given THEN [kind |-> "ok", err |-> "", sims |-> [i \in 1..n |-> Binary]]
    ELSE IF Mismatch(scl.items, n)
         THEN [kind |-> "error", err |-> ErrScales, sims |-> <<>>]
    ELSE [kind |-> "ok", err |-> "",
          sims |-> [i \in 1..n |-> make_scalar_sim(scl.items[i])]]

\* lines 113-130: the similarity functions the loop uses
SelectSims(sim, scl, n) ==
    IF sim.kind # "none"
    THEN IF Mismatch(sim.items, n)
         THEN [kind |-> "error", err |-> ErrSimilarity, sims |-> <<>>]
         ELSE [kind |-> "ok", err |-> "", sims |-> sim.items]
    ELSE IF ~scl.given THEN [kind |-> "error", err |-> ErrMissing, sims |-> <<>>]
    ELSE IF Mismatch(scl.items, n)
         THEN [kind |-> "error", err |-> ErrScales, sims |-> <<>>]
    ELSE [kind |-> "ok", err |-> "",
          sims |-> [i \in 1..n |-> make_scalar_sim(scl.items[i])]]

\* lines 94-148: the outcome of the call, and in rest the similarity
\* iterable as the call leaves it
weighted_cohesion_score(s, t, wts, sim, scl) ==
    LET n == Len(s)
        w == IF wts.given THEN wts.items ELSE [i \in 1..n |-> Num(1)]
        out(o, after) == [kind |-> o.kind, val |-> o.val, err |-> o.err,
                          rest |-> after]
    IN  IF Len(s) # Len(t) THEN out(Raise(ErrLength), sim)
        ELSE IF n = 0 THEN out(Ok(Num(0)), sim)
        ELSE IF Mismatch(w, n) THEN out(Raise(ErrWeights), sim)
        ELSE LET sel == SelectSims(sim, scl, n)
             IN  IF sel.kind = "error" THEN out(Raise(sel.err), Consumed(sim))
                 ELSE out(Aggregate(s, t, w, sel.sims), Consumed(sim))

Outcome(r) == [kind |-> r.kind, val |-> r.val, err |-> r.err]

----------------------------------------------------------------------------
(* Inputs *)

SeqsOf(S, m)   == [1..m -> S]

AttrValues   == {Num(0), Num(1)}
WeightValues == {Num(-1), Num(0), Num(1), Num(2)}
ScaleValues  == {Num(0), Num(2)}
SimFuncs     == {Binary, Const(Num(-1)), Const(Num(2)), Const(NaN)}

NoOption == [name |-> "", F |-> Num(0), P |-> Num(0), D |-> Num(0),
             wcs |-> Num(0), dr |-> Num(0), vetoed |-> FALSE]

NoArgs == [name |-> "", F |-> Num(0), P |-> Num(0), D |-> Num(0),
           wF |-> Num(0), wP |-> Num(0), wD_star |-> Num(0),
           lambda_ |-> Num(0), veto_threshold |-> Num(0)]

\* Variables a specification does not use stay at these values
IdleDR   == /\ target_a = <<>> /\ target_b = <<>> /\ eps = Num(0)
            /\ wcs_a = Pending /\ wcs_b = Pending
            /\ seen_a = <<>> /\ seen_b = <<>>
IdleWCS  == target = <<>>
IdleOpt  == opt = NoOption /\ args = NoArgs
IdleRank == options = <<>> /\ ranked = <<>>

----------------------------------------------------------------------------
(* Specification of one weighted_cohesion_score call *)

InitWCS ==
    /\ pc = "call"
    /\ \E n \in 0..MaxLen :
         /\ subject \in SeqsOf(AttrValues, n)
         /\ target \in SeqsOf(AttrValues, n) \cup {<<Num(0)>>}
         /\ weights \in {None} \cup {Some(q) : q \in SeqsOf(WeightValues, n)}
                          \cup {Some(<<Num(1)>>)}
         /\ \/ /\ similarity \in {SimList(q) : q \in SeqsOf(SimFuncs, n)}
                                   \cup {SimList(<<Binary>>)}
               /\ scales \in {None, Some(<<Num(2)>>)}
            \/ /\ similarity = NoSimilarity
               /\ scales \in {None} \cup {Some(q) : q \in SeqsOf(ScaleValues, n)}
                               \cup {Some(<<Num(2)>>)}
    /\ ret = Pending
    /\ IdleDR /\ IdleOpt /\ IdleRank

CallWCS ==
    /\ pc = "call"
    /\ LET r == weighted_cohesion_score(subject, target, weights, similarity, scales)
       IN  /\ ret' = Outcome(r)
           /\ similarity' = r.rest
    /\ pc' = "done"
    /\ UNCHANGED <<subject, target, target_a, target_b, weights, scales, eps,
                   wcs_a, wcs_b, seen_a, seen_b, args, opt, options, ranked>>

NextWCS == CallWCS

SpecWCS == InitWCS /\ [][NextWCS]_vars

----------------------------------------------------------------------------
(* distributional_ratio *)

\* faulty variant: a degenerate denominator always gives infinity
RatioNoNeutral(a, b, e) ==
    IF Le(b, e) THEN Ok(PosInf)
    ELSE IF IsZero(b) THEN Raise(ErrZeroDiv)
    ELSE Ok(Div(a, b))

\* lines 178-183: the zero-division policy on the two scores
Ratio(a, b, e) ==
    IF Le(b, e)
    THEN IF Le(a, e) THEN Ok(Num(1)) ELSE Ok(PosInf)
    ELSE IF IsZero(b) THEN Raise(ErrZeroDiv)
    ELSE Ok(Div(a, b))

DRWeightValues == {Num(0), Num(1)}
DRSimFuncs     == {Binary, Const(Num(2))}
Uniform(f, n)  == [i \in 1..n |-> f]
EpsValues      == {Num(-1), Num(0), Rat(1, 2)}

InitDR ==
    /\ pc = "call"
    /\ \E n \in 0..MaxLen :
         /\ subject \in SeqsOf(AttrValues, n)
         /\ target_a \in SeqsOf(AttrValues, n)
         /\ target_b \in SeqsOf(AttrValues, n) \cup {<<Num(0)>>}
         /\ weights \in {None} \cup {Some(q) : q \in SeqsOf(DRWeightValues, n)}
         /\ \/ /\ similarity \in {SimList(Uniform(f, n)) : f \in DRSimFuncs}
                                   \cup {SimIter(Uniform(f, n)) : f \in DRSimFuncs}
               /\ scales = None
            \/ /\ similarity = NoSimilarity
               /\ scales \in {None, Some(Uniform(Num(2), n))}
    /\ eps \in EpsValues
    /\ ret = Pending /\ wcs_a = Pending /\ wcs_b = Pending
    /\ seen_a = <<>> /\ seen_b = <<>>
    /\ IdleWCS /\ IdleOpt /\ IdleRank

\* Variables the distributional_ratio steps leave alone
FrameDR == UNCHANGED <<subject, target, target_a, target_b, weights, scales,
                       eps, args, opt, options, ranked>>

\* line 175: wcs_a = weighted_cohesion_score(subject, target_a, ...); an error
\* of the call leaves distributional_ratio at once
CallWcsA ==
    /\ pc = "call"
    /\ LET a == weighted_cohesion_score(subject, target_a, weights, similarity, scales)
       IN  /\ wcs_a' = Outcome(a)
           /\ seen_a' = similarity.items
           /\ similarity' = a.rest
           /\ IF a.kind = "error"
              THEN pc' = "done" /\ ret' = Raise(a.err)
              ELSE pc' = "call_b" /\ ret' = ret
    /\ UNCHANGED <<wcs_b, seen_b>>
    /\ FrameDR

\* line 176: wcs_b = weighted_cohesion_score(subject, target_b, ...) with the
\* same argument objects
CallWcsB ==
    /\ pc = "call_b"
    /\ LET b == weighted_cohesion_score(subject, target_b, weights, similarity, scales)
       IN  /\ wcs_b' = Outcome(b)
           /\ seen_b' = similarity.items
           /\ similarity' = b.rest
           /\ IF b.kind = "error"
              THEN pc' = "done" /\ ret' = Raise(b.err)
              ELSE pc' = "ratio" /\ ret' = ret
    /\ UNCHANGED <<wcs_a, seen_a>>
    /\ FrameDR

\* lines 178-183
ReturnRatio ==
    /\ pc = "ratio"
    /\ ret' = Ratio(wcs_a.val, wcs_b.val, eps)
    /\ pc' = "done"
    /\ UNCHANGED <<wcs_a, wcs_b, seen_a, seen_b, similarity>>
    /\ FrameDR

NextDR == CallWcsA \/ CallWcsB \/ ReturnRatio

SpecDR == InitDR /\ [][NextDR]_vars

----------------------------------------------------------------------------
(* Fixed-schema cohesion / risk model: evaluate_option and rank_options,   *)
(* which example_wcsdr.py imports and calls.                               *)

\* faulty variant: only the upper end is clamped
Clamp01Upper(x) == IF Lt(Num(1), x) THEN Num(1) ELSE x

Clamp01(x) == IF Lt(x, Num(0)) THEN Num(0) ELSE IF Lt(Num(1), x) THEN Num(1) ELSE x

cohesion(F, P, D, wF, wP, wD_star) ==
    LET D_star == Sub(Num(1), Clamp01(D))
        total  == Add(Add(wF, wP), wD_star)
    IN  IF Le(total, Num(0)) THEN Num(0)
        ELSE Div(Add(Add(Mul(wF, Clamp01(F)), Mul(wP, Clamp01(P))),
                     Mul(wD_star, D_star)), total)

risk(D, cohesion_value, lambda) ==
    LET l == Clamp01(lambda)
    IN  Add(Mul(l, Clamp01(D)),
            Mul(Sub(Num(1), l), Sub(Num(1), Clamp01(cohesion_value))))

Vetoed(D, veto_threshold) == Lt(veto_threshold, D)

evaluate_option(name, F, P, D, wF, wP, wD_star, lambda, veto_threshold) ==
    LET c == cohesion(F, P, D, wF, wP, wD_star)
    IN  [name |-> name, F |-> F, P |-> P, D |-> D, wcs |-> c,
         dr |-> risk(D, c, lambda), vetoed |-> Vetoed(D, veto_threshold)]

\* faulty variant: the veto flag is left out of the key
KeyLessRiskOnly(a, b) == Lt(a.dr, b.dr)

\* the ranking key (vetoed, dr), compared lexicographically
KeyLess(a, b) ==
    \/ ~a.vetoed /\ b.vetoed
    \/ a.vetoed = b.vetoed /\ Lt(a.dr, b.dr)

\* x inserted behind every element whose key is not greater than x's
RECURSIVE Insert(_, _)
Insert(q, x) ==
    IF q = <<>> THEN <<x>>
    ELSE IF KeyLess(x, Head(q)) THEN <<x>> \o q
    ELSE <<Head(q)>> \o Insert(Tail(q), x)

RECURSIVE SortFrom(_, _, _)
SortFrom(i, opts, acc) ==
    IF i > Len(opts) THEN acc ELSE SortFrom(i + 1, opts, Insert(acc, opts[i]))

rank_options(opts) == SortFrom(1, opts, <<>>)

RawValues     == {Rat(-1, 5), Rat(7, 10), Rat(3, 2)}
DissolutionValues == {Rat(-1, 5), Rat(13, 20), Rat(4, 5), Rat(3, 2)}
ModelWeights  == {Num(-1), Num(0), Num(1), Num(2)}
LambdaValues  == {Num(-1), Rat(7, 10), Num(2)}
VetoThresholds == {Rat(13, 20), Rat(4, 5)}

InitOpt ==
    /\ pc = "call"
    /\ args \in [name : {"Jog"}, F : RawValues, P : RawValues,
                 D : DissolutionValues, wF : ModelWeights, wP : ModelWeights,
                 wD_star : ModelWeights, lambda_ : LambdaValues,
                 veto_threshold : VetoThresholds]
    /\ opt = NoOption
    /\ subject = <<>> /\ similarity = NoSimilarity /\ ret = Pending
    /\ weights = None /\ scales = None
    /\ IdleWCS /\ IdleDR /\ IdleRank

EvaluateOption ==
    /\ pc = "call"
    /\ opt' = evaluate_option(args.name, args.F, args.P, args.D,
                              args.wF, args.wP, args.wD_star,
                              args.lambda_, args.veto_threshold)
    /\ pc' = "done"
    /\ UNCHANGED <<subject, target, target_a, target_b, weights, similarity,
                   scales, eps, ret, wcs_a, wcs_b, seen_a, seen_b, args, options, ranked>>

NextOpt == EvaluateOption

SpecOpt == InitOpt /\ [][NextOpt]_vars

MaxOptions == 3

OptionNames == <<"a", "b", "c", "d", "e">>
RiskValues == {Rat(1, 10), Rat(3, 10), Rat(1, 2)}

OptionResult(i, r, v) ==
    [name |-> OptionNames[i], F |-> Num(0), P |-> Num(0), D |-> Num(0),
     wcs |-> Num(0), dr |-> r, vetoed |-> v]

InitRank ==
    /\ pc = "call"
    /\ \E n \in 0..MaxOptions :
         \E rs \in SeqsOf(RiskValues, n), vs \in SeqsOf(BOOLEAN, n) :
            options = [i \in 1..n |-> OptionResult(i, rs[i], vs[i])]
    /\ ranked = <<>>
    /\ subject = <<>> /\ similarity = NoSimilarity /\ ret = Pending
    /\ weights = None /\ scales = None
    /\ IdleWCS /\ IdleDR /\ opt = NoOption /\ args = NoArgs

RankOptions ==
    /\ pc = "call"
    /\ ranked' = rank_options(options)
    /\ pc' = "done"
    /\ UNCHANGED <<subject, target, target_a, target_b, weights, similarity,
                   scales, eps, ret, wcs_a, wcs_b, seen_a, seen_b, args, opt, options>>

NextRank == RankOptions

SpecRank == InitRank /\ [][NextRank]_vars

----------------------------------------------------------------------------
(* Properties of weighted_cohesion_score (SpecWCS) *)

InUnit(x) == Le(Num(0), x) /\ Le(x, Num(1))

Returned == pc = "done" /\ ret.kind = "ok"
Failed   == pc = "done" /\ ret.kind = "error"

\* the weight the loop uses at position i
WeightAt(i) == IF weights.given THEN weights.items[i] ELSE Num(1)

IdenticalUnderBinary ==
    /\ Returned
    /\ subject = target
    /\ similarity.kind = "list"
    /\ \A i \in 1..Len(similarity.items) : similarity.items[i] = Binary

SomePositiveWeight == \E i \in 1..Len(subject) : Lt(Num(0), WeightAt(i))

\* C2 as stated: weighted_cohesion_score(v, v, weights) under binary
\* similarity returns exactly 1.0 for every v and every accepted weight vector.
C2_Original == IdenticalUnderBinary => ret.val = Num(1)

\* C2 amended: weighted_cohesion_score(v, v, weights) under binary similarity
\* returns exactly 1.0 when v is non-empty and some weight is positive, and
\* 0.0 when v is empty or no weight is positive.
C2_IdenticalScoresOne ==
    IdenticalUnderBinary =>
        ret.val = (IF Len(subject) >= 1 /\ SomePositiveWeight
                   THEN Num(1) ELSE Num(0))

\* v against itself with one positive and one non-positive weight scores 1.0
C2_Witness ==
    /\ IdenticalUnderBinary
    /\ weights.given
    /\ \E i, j \in 1..Len(subject) :
          Lt(Num(0), WeightAt(i)) /\ Le(WeightAt(j), Num(0))
    /\ ret.val = Num(1)

\* the four shape / configuration faults of C4, for vectors of length n
WeightsFault == weights.given /\ Len(weights.items) # Len(subject)
SimilarityFault == similarity.kind # "none" /\ Len(similarity.items) # Len(subject)
MissingFault == similarity.kind = "none" /\ ~scales.given
ScalesFault == /\ similarity.kind = "none" /\ scales.given
               /\ Len(scales.items) # Len(subject)
ConfigFault == WeightsFault \/ SimilarityFault \/ MissingFault \/ ScalesFault

\* C4 as stated: for subject and target of equal length n >= 0, any of the
\* four faults makes the call fail.
C4_Original ==
    (pc = "done" /\ Len(subject) = Len(target) /\ ConfigFault)
        => ret.kind = "error"

\* C4 amended: for subject and target of equal length n >= 1, any of the four
\* faults makes the call fail with the error of the first fault in the order
\* weights, similarity, missing configuration, scales; for n = 0 the call
\* returns 0.0 without looking at weights, similarity or scales.
C4_FaultsFail ==
    (pc = "done" /\ Len(subject) = Len(target)) =>
        /\ (Len(subject) >= 1 /\ ConfigFault) =>
              /\ ret.kind = "error"
              /\ ret.err = (IF WeightsFault THEN ErrWeights
                            ELSE IF SimilarityFault THEN ErrSimilarity
                            ELSE IF MissingFault THEN ErrMissing
                            ELSE ErrScales)
        /\ Len(subject) = 0 => ret = Ok(Num(0))

\* a call on non-empty vectors without similarity and without scales failed
C4_Witness ==
    /\ Failed
    /\ Len(subject) = Len(target) /\ Len(subject) >= 1
    /\ ~WeightsFault /\ MissingFault
    /\ ret.err = ErrMissing

\* position i carries a weight that is zero or negative
NonPositiveAt(i) ==
    /\ weights.given
    /\ i \in DOMAIN weights.items
    /\ Le(weights.items[i], Num(0))

\* the sequence q with every position of non-positive weight overwritten by c
Masked(q, c) == [i \in DOMAIN q |-> IF NonPositiveAt(i) THEN c ELSE q[i]]

MaskedSimilarity ==
    [kind |-> similarity.kind, items |-> Masked(similarity.items, Binary)]

MaskedScales == [given |-> scales.given, items |-> Masked(scales.items, Num(2))]

\* C5: the outcome of a call (score or error) is the outcome of the call
\* whose subject value, target value, similarity function and scale at every
\* position of weight <= 0 are replaced by fixed ones.  Two calls that agree
\* on the positions of positive weight have the same replacement, hence the
\* same outcome: what stands at a position of weight <= 0 is never observed.
C5_NonPositiveWeightIgnored ==
    pc = "done" =>
        ret = Outcome(weighted_cohesion_score(
                  Masked(subject, Num(0)), Masked(target, Num(0)), weights,
                  MaskedSimilarity, MaskedScales))

\* a score was returned although a position of weight zero has a scale that
\* similarity_scalar rejects, and another position has positive weight
C5_Witness ==
    /\ Returned
    /\ similarity.kind = "none" /\ scales.given
    /\ \E i \in 1..Len(subject) :
          /\ NonPositiveAt(i) /\ weights.items[i] = Num(0)
          /\ scales.items[i] = Num(0)
          /\ subject[i] # target[i]
    /\ SomePositiveWeight

----------------------------------------------------------------------------
(* Properties of distributional_ratio (SpecDR) *)

BothScored == pc = "done" /\ wcs_a.kind = "ok" /\ wcs_b.kind = "ok"

C6_NoOwnErrors ==
    pc = "done" =>
        /\ (wcs_a.kind = "ok" /\ wcs_b.kind = "ok") => ret.kind = "ok"
        /\ ret.kind = "error" =>
              \/ wcs_a.kind = "error" /\ ret.err = wcs_a.err
              \/ wcs_b.kind = "error" /\ ret.err = wcs_b.err

\* C7: when the score of the subject against A is above eps,
\* distributional_ratio(subject, A, A, ...) returns exactly 1.0.
C7_SameTargetIsOne ==
    (pc = "done" /\ target_a = target_b
        /\ wcs_a.kind = "ok" /\ Lt(eps, wcs_a.val))
        => ret = Ok(Num(1))

ShapeErrors == {ErrWeights, ErrSimilarity, ErrMissing, ErrScales}

\* C10: the second weighted_cohesion_score call finds in the similarity
\* argument the items the first call found, and when the first call accepted
\* the configuration the second does not fail on its shape.
C10_SameConfiguration ==
    (pc = "done" /\ wcs_b.kind # "pending") =>
        /\ seen_b = seen_a
        /\ wcs_a.kind = "ok" => ~(wcs_b.kind = "error" /\ wcs_b.err \in ShapeErrors)

----------------------------------------------------------------------------
(* Properties of the fixed-schema model (SpecOpt) *)

NonNegativeWeights ==
    /\ Le(Num(0), args.wF) /\ Le(Num(0), args.wP) /\ Le(Num(0), args.wD_star)

\* C8 as stated: for all raw inputs, weights, lambda and veto thresholds the
\* cohesion score and the risk score of the record are in [0, 1].
C8_Original == pc = "done" => InUnit(opt.wcs) /\ InUnit(opt.dr)

\* C8 amended: for all raw inputs, lambda and veto thresholds the risk score
\* of the record is in [0, 1], and for all non-negative weights its cohesion
\* score is in [0, 1] too.
C8_ScoresInUnitInterval ==
    pc = "done" =>
        /\ InUnit(opt.dr)
        /\ NonNegativeWeights => InUnit(opt.wcs)

\* an option with Fit above 1, Dissolution below 0 and lambda above 1 was
\* evaluated under positive weights
C8_Witness ==
    /\ pc = "done"
    /\ Lt(Num(1), args.F) /\ Lt(args.D, Num(0)) /\ Lt(Num(1), args.lambda_)
    /\ Lt(Num(0), args.wF) /\ Lt(Num(0), args.wP) /\ Lt(Num(0), args.wD_star)
    /\ Lt(Num(0), opt.wcs)

----------------------------------------------------------------------------
(* Properties of rank_options (SpecRank) *)

\* the position of the option named nm in the input
InputIndex(nm) == CHOOSE i \in 1..Len(options) : options[i].name = nm

RankedIsPermutation ==
    /\ Len(ranked) = Len(options)
    /\ \A i \in 1..Len(options) :
          Cardinality({j \in 1..Len(ranked) : ranked[j] = options[i]}) = 1

RankedInOrder ==
    \A i, j \in 1..Len(ranked) :
        i < j =>
            /\ ranked[i].vetoed => ranked[j].vetoed
            /\ ranked[i].vetoed = ranked[j].vetoed
                  => Le(ranked[i].dr, ranked[j].dr)
            /\ (ranked[i].vetoed = ranked[j].vetoed /\ ranked[i].dr = ranked[j].dr)
                  => InputIndex(ranked[i].name) < InputIndex(ranked[j].name)

BestFirst ==
    (\E i \in 1..Len(options) : ~options[i].vetoed) =>
        /\ ~ranked[1].vetoed
        /\ \A i \in 1..Len(options) :
              ~options[i].vetoed => Le(ranked[1].dr, options[i].dr)

\* C9: the result of rank_options is a permutation of the input, with every
\* non-vetoed option before every vetoed one, ascending risk within the same
\* veto flag, input order kept among equal keys, and the lowest-risk
\* non-vetoed option first; the input sequence itself is left as it was.
C9_RankedOrder ==
    /\ [](pc = "done" => RankedIsPermutation /\ RankedInOrder /\ BestFirst)
    /\ [][options' = options]_vars

\* a vetoed option of lowest risk stood first in the input, and two
\* non-vetoed options of equal risk followed it
C9_Witness ==
    /\ pc = "done"
    /\ Len(options) >= 3
    /\ options[1].vetoed /\ ~options[2].vetoed /\ ~options[3].vetoed
    /\ Lt(options[1].dr, options[2].dr) /\ options[2].dr = options[3].dr
    /\ ranked[1] = options[2] /\ ranked[2] = options[3]

====
